---- MODULE Spec2Model ----
(***************************************************************************)
(* Model of examples/general/plot_7_vision_transformer.py:                 *)
(*   - build_attention_map (attention rollout), one action per statement,  *)
(*     called twice by the script (float model, then quantized model);     *)
(*   - check_model_performance (accuracy helper).                          *)
(* Floating-point arrays are modelled with exact rationals <<num, den>>;   *)
(* den = 0 encodes the IEEE specials (<<0,0>> is NaN, <<1,0>> is +inf).    *)
(***************************************************************************)
EXTENDS Integers, Sequences, FiniteSets, TLC

(* ---------------- bounds of the model ---------------- *)
MaxTokens == 5
MaxClassTokens == 2
MaxLayers == 2
MaxHeads == 2
MaxHeight == 4
MaxWidth == 4
MaxTest == 11

(* ---------------- program constants ---------------- *)
NUM_CHANNELS == 3
num_images == 10

None == <<>>
NoInt == 0 - 1

(* ---------------- exact rational arithmetic ---------------- *)
Abs(x) == IF x < 0 THEN -x ELSE x
Sign(x) == IF x < 0 THEN -1 ELSE IF x = 0 THEN 0 ELSE 1

RECURSIVE GCD(_, _)
GCD(a, b) == IF b = 0 THEN a ELSE GCD(b, a % b)

Rat(n, d) ==
    IF d = 0 THEN <<Sign(n), 0>>
    ELSE LET g == GCD(Abs(n), Abs(d))
             s == IF d < 0 THEN -1 ELSE 1
         IN <<s * (n \div g), s * (d \div g)>>

R(n) == <<n, 1>>
NaN == <<0, 0>>
IsNaN(a) == a = NaN
IsFinite(a) == a[2] # 0

RAdd(a, b) ==
    IF a[2] = 0 \/ b[2] = 0
    THEN IF IsNaN(a) \/ IsNaN(b) THEN NaN
         ELSE IF a[2] = 0 /\ b[2] = 0 /\ a[1] # b[1] THEN NaN
         ELSE IF a[2] = 0 THEN a ELSE b
    ELSE LET g == GCD(a[2], b[2])
         IN Rat(a[1] * (b[2] \div g) + b[1] * (a[2] \div g), (a[2] \div g) * b[2])

RMul(a, b) ==
    IF a[2] = 0 \/ b[2] = 0
    THEN <<Sign(a[1]) * Sign(b[1]), 0>>
    ELSE LET g1 == GCD(Abs(a[1]), b[2])
             g2 == GCD(Abs(b[1]), a[2])
             h1 == IF g1 = 0 THEN 1 ELSE g1
             h2 == IF g2 = 0 THEN 1 ELSE g2
         IN Rat((a[1] \div h1) * (b[1] \div h2), (a[2] \div h2) * (b[2] \div h1))

\* IEEE division: x/0 is +-inf, 0/0 is NaN, no exception.
RDiv(a, b) ==
    IF a[2] = 0 \/ b[2] = 0
    THEN IF IsNaN(a) \/ IsNaN(b) THEN NaN
         ELSE IF a[2] = 0 /\ b[2] = 0 THEN NaN
         ELSE IF a[2] = 0 THEN <<a[1] * (IF b[1] < 0 THEN -1 ELSE 1), 0>>
         ELSE R(0)
    ELSE IF b[1] = 0 THEN <<Sign(a[1]), 0>>
    ELSE RMul(a, Rat(b[2], b[1]))

\* IEEE comparison: every comparison with NaN is false.
RLe(a, b) ==
    IF IsNaN(a) \/ IsNaN(b) THEN FALSE
    ELSE IF a[2] = 0 /\ b[2] = 0 THEN a[1] <= b[1]
    ELSE IF a[2] = 0 THEN a[1] < 0
    ELSE IF b[2] = 0 THEN b[1] > 0
    ELSE a[1] * b[2] <= b[1] * a[2]

RLt(a, b) == RLe(a, b) /\ a # b

RECURSIVE RSumSeq(_)
RSumSeq(s) == IF s = <<>> THEN R(0) ELSE RAdd(s[1], RSumSeq(Tail(s)))

\* np.max semantics on a non-empty sequence: a NaN anywhere gives NaN.
RECURSIVE RMaxSeq(_)
RMaxSeq(s) ==
    IF Len(s) = 1 THEN s[1]
    ELSE LET m == RMaxSeq(Tail(s))
         IN IF IsNaN(s[1]) \/ IsNaN(m) THEN NaN
            ELSE IF RLe(m, s[1]) THEN s[1] ELSE m

(* ---------------- dense matrices ---------------- *)
Rows(m) == Len(m)
Cols(m) == IF Len(m) = 0 THEN 0 ELSE Len(m[1])

RECURSIVE FlattenRows(_)
FlattenRows(m) == IF m = <<>> THEN <<>> ELSE m[1] \o FlattenRows(Tail(m))

Eye(t) == [i \in 1..t |-> [j \in 1..t |-> IF i = j THEN R(1) ELSE R(0)]]

MatAdd(a, b) == [i \in 1..Rows(a) |-> [j \in 1..Cols(a) |-> RAdd(a[i][j], b[i][j])]]

MatScale(a, k) == [i \in 1..Rows(a) |-> [j \in 1..Cols(a) |-> RDiv(a[i][j], k)]]

MatSum(a) == RSumSeq(FlattenRows(a))

MatMul(a, b) ==
    [i \in 1..Rows(a) |->
        [j \in 1..Cols(b) |->
            RSumSeq([k \in 1..Cols(a) |-> RMul(a[i][k], b[k][j])])]]

(* ---------------- the inputs of the script ---------------- *)
\* A model under inspection: its ClassToken layers, the token count of its
\* Attention layers (class tokens plus at least one patch), its heads, and one
\* attention pattern per layer.
Kinds == 0..2   \* 0: no attention, 1: each token attends its successor, 2: ramp

KindOfHead(k, h) == (k + h - 1) % 3

\* Attention scores of one head (tokens x tokens), non-negative.
Fixture(kind, t) ==
    [i \in 1..t |->
        [j \in 1..t |->
            IF kind = 0 THEN R(0)
            ELSE IF kind = 1 THEN (IF j = (i % t) + 1 THEN R(1) ELSE R(0))
            ELSE R(j - 1)]]

Models ==
    UNION { [class_tokens : {c}, tokens : (c + 1)..MaxTokens, heads : 1..MaxHeads,
             kinds : [1..l -> Kinds]] : c \in 1..MaxClassTokens, l \in 1..MaxLayers }

\* The quantized model has the architecture of the float model and other weights.
ModelQuantized(m) == [m EXCEPT !.kinds = [l \in DOMAIN m.kinds |-> (m.kinds[l] + 1) % 3]]

\* Attention scores the forward pass yields: one array of shape
\* (1, heads, tokens, tokens) per Attention layer.
AttentionOutputs(m) ==
    [l \in 1..Len(m.kinds) |->
        << [h \in 1..m.heads |-> Fixture(KindOfHead(m.kinds[l], h), m.tokens)] >>]

\* uint8 images of shape (height, width, NUM_CHANNELS).
SolidImage(h, w) == [y \in 1..h |-> [x \in 1..w |-> <<255, 100, 7>>]]
GradientImage(h, w) ==
    [y \in 1..h |-> [x \in 1..w |->
        [ch \in 1..NUM_CHANNELS |-> (60 * (y - 1) + 16 * (x - 1) + ch) % 256]]]

Images ==
    UNION { {SolidImage(h, w), GradientImage(h, w)} :
            h \in (MaxHeight - 1)..MaxHeight, w \in (MaxWidth - 1)..MaxWidth }

Height(img) == Len(img)
Width(img) == Len(img[1])

(* ---------------- build_attention_map, statement by statement ---------------- *)
\* int(np.sqrt(tokens - num_tokens)): the float square root truncated toward zero.
RECURSIVE SqrtFloor(_, _)
SqrtFloor(x, r) == IF (r + 1) * (r + 1) > x THEN r ELSE SqrtFloor(x, r + 1)

\* Variant: the square root rounded to the nearest integer.
GridSizeRounded(tokens, class_tokens) ==
    LET x == tokens - class_tokens
        r == SqrtFloor(x, 0)
    IN IF x - r * r > r THEN r + 1 ELSE r

GridSizeOf(tokens, class_tokens) == SqrtFloor(tokens - class_tokens, 0)

\* np.array(list) of arrays (1, heads, t, t): the row-major elements of the
\* stacked array of shape (layers, 1, heads, t, t).
StackShape(w) == <<Len(w), Len(w[1]), Len(w[1][1]), Len(w[1][1][1]), Len(w[1][1][1][1])>>

StackFlat(w) ==
    LET sh == StackShape(w)
    IN [k \in 1..(sh[1] * sh[2] * sh[3] * sh[4] * sh[5]) |->
          LET z == k - 1
              j == z % sh[5]
              i == (z \div sh[5]) % sh[4]
              h == (z \div (sh[5] * sh[4])) % sh[3]
              b == (z \div (sh[5] * sh[4] * sh[3])) % sh[2]
              l == z \div (sh[5] * sh[4] * sh[3] * sh[2])
          IN w[l + 1][b + 1][h + 1][i + 1][j + 1]]

\* weights.reshape((num_layers, num_heads, n, n)): fails unless the sizes agree.
ReshapeFails(flat, layers, heads, n) == Len(flat) # layers * heads * n * n

Reshape(flat, layers, heads, n) ==
    [l \in 1..layers |-> [h \in 1..heads |-> [i \in 1..n |-> [j \in 1..n |->
        flat[(((l - 1) * heads + (h - 1)) * n + (i - 1)) * n + j]]]]]

\* reshaped.mean(axis=1)
MeanHeads(r) ==
    [l \in 1..Len(r) |->
        [i \in 1..Len(r[l][1]) |-> [j \in 1..Len(r[l][1][i]) |->
            RDiv(RSumSeq([h \in 1..Len(r[l]) |-> r[l][h][i][j]]), R(Len(r[l])))]]]

\* reshaped + np.eye(reshaped.shape[1])
AddResidual(r) == [l \in 1..Len(r) |-> MatAdd(r[l], Eye(Len(r[l])))]

\* reshaped / reshaped.sum(axis=(1, 2))[:, np.newaxis, np.newaxis]
Renormalize(r) == [l \in 1..Len(r) |-> MatScale(r[l], MatSum(r[l]))]

\* Variant: np.matmul(reshaped[-1 - n], v)
RolloutMultiplyLeft(acc, layer) == MatMul(layer, acc)

\* np.matmul(v, reshaped[-1 - n])
RolloutMultiply(acc, layer) == MatMul(acc, layer)

\* v[0, 1:].reshape(grid_size, grid_size)
ExtractFails(acc, g) == Len(acc[1]) - 1 # g * g
ExtractMask(acc, g) == [r \in 1..g |-> [c \in 1..g |-> acc[1][1 + (r - 1) * g + c]]]

\* Variant: a zero maximum is refused as well.
NormalizeFailsGuarded(m) ==
    \/ FlattenRows(m) = <<>>
    \/ RMaxSeq(FlattenRows(m)) = R(0)

\* mask.max() raises on an empty array and nowhere else.
NormalizeFails(m) == FlattenRows(m) = <<>>

\* Variant: mask / mask.sum()
MaskNormalizeBySum(m) == MatScale(m, MatSum(m))

\* mask / mask.max()
MaskNormalize(m) == MatScale(m, RMaxSeq(FlattenRows(m)))

\* Variant: (image.shape[0], image.shape[1]).
ResizeDsizeSwapped(img) == <<Height(img), Width(img)>>

\* dsize handed to cv2.resize: (image.shape[1], image.shape[0]) = (width, height).
ResizeDsize(img) == <<Width(img), Height(img)>>

\* cv2.resize, INTER_LINEAR: source coordinate of a destination index (0-based),
\* as the pair <<left source index, weight of the right neighbour>>.
LinearCoord(d, ssize, dsize) ==
    LET num == (2 * d + 1) * ssize - dsize
        den == 2 * dsize
        s0 == num \div den
    IN IF s0 < 0 THEN <<0, R(0)>>
       ELSE IF s0 >= ssize - 1 THEN <<ssize - 1, R(0)>>
       ELSE <<s0, Rat(num - s0 * den, den)>>

Lerp(a, b, f) == RAdd(RMul(a, RAdd(R(1), RMul(R(-1), f))), RMul(b, f))

\* cv2.resize(src, dsize): dsize is (columns, rows); the result has dsize[2] rows.
CvResize(src, dsize) ==
    LET sh == Rows(src)
        sw == Cols(src)
        At(y, x) == src[(IF y > sh - 1 THEN sh - 1 ELSE y) + 1][(IF x > sw - 1 THEN sw - 1 ELSE x) + 1]
    IN [y \in 1..dsize[2] |-> [x \in 1..dsize[1] |->
          LET cy == LinearCoord(y - 1, sh, dsize[2])
              cx == LinearCoord(x - 1, sw, dsize[1])
              top == Lerp(At(cy[1], cx[1]), At(cy[1], cx[1] + 1), cx[2])
              bot == Lerp(At(cy[1] + 1, cx[1]), At(cy[1] + 1, cx[1] + 1), cx[2])
          IN Lerp(top, bot, cy[2])]]

\* numpy broadcasting of two dimensions; NoInt when they are incompatible.
BroadcastDim(a, b) == IF a = b THEN a ELSE IF a = 1 THEN b ELSE IF b = 1 THEN a ELSE NoInt

MultiplyFails(m, img) ==
    \/ BroadcastDim(Rows(m), Height(img)) = NoInt
    \/ BroadcastDim(Cols(m), Width(img)) = NoInt

\* mask[..., np.newaxis] * image, a float array.
Multiply(m, img) ==
    LET hh == BroadcastDim(Rows(m), Height(img))
        ww == BroadcastDim(Cols(m), Width(img))
        Ix(k, size) == IF size = 1 THEN 1 ELSE k
    IN [y \in 1..hh |-> [x \in 1..ww |-> [ch \in 1..NUM_CHANNELS |->
          RMul(m[Ix(y, Rows(m))][Ix(x, Cols(m))],
               R(img[Ix(y, Height(img))][Ix(x, Width(img))][ch]))]]]

\* What a build may store when a NaN is cast to uint8 (the C cast is undefined).
NaNCasts == {0, 255}

\* Variant: rounding to the nearest integer, then 8-bit wrap.
CastUint8Round(x) == ((2 * x[1] + x[2]) \div (2 * x[2])) % 256

\* astype("uint8") of a finite value: truncation toward zero, then 8-bit wrap.
CastUint8(x) == (Sign(x[1]) * (Abs(x[1]) \div x[2])) % 256

AsUint8(arr, nan) ==
    [y \in 1..Len(arr) |-> [x \in 1..Len(arr[y]) |-> [ch \in 1..Len(arr[y][x]) |->
        IF IsFinite(arr[y][x][ch]) THEN CastUint8(arr[y][x][ch]) ELSE nan]]]

(* ---------------- check_model_performance ---------------- *)
Classes == 0..1

\* A classifier, by the class it scores highest for each image content.
Classifiers == [Classes -> Classes]

\* model.predict: one row of class scores per image handed in.
PredictScores(m, xs) ==
    [i \in 1..Len(xs) |-> [k \in 1..Cardinality(Classes) |-> IF k - 1 = m[xs[i]] THEN 1 ELSE 0]]

\* np.argmax along axis 1: the first index (0-based) holding the row maximum.
ArgMax(row) ==
    CHOOSE k \in 0..(Len(row) - 1) :
        /\ \A q \in 1..Len(row) : row[q] <= row[k + 1]
        /\ \A q \in 1..k : row[q] < row[k + 1]

\* np.sum(np.equal(outputs, labels))
CountEqual(outs, labels) == Cardinality({i \in 1..Len(outs) : outs[i] = labels[i]})

\* np.sum(np.equal(outputs_keras, labels_test)) / num_images
AccuracyOf(outs, labels) == Rat(CountEqual(outs, labels), num_images)

(* ---------------- state ---------------- *)
VARIABLES
    model_keras, model_quantized, image,      \* script globals read by the calls
    call, pc, error,                          \* which call runs, where it is, what it raised
    num_tokens, grid_size, captured, weights, \* locals of build_attention_map
    num_heads, num_layers, reshaped, v, n, mask, normalized, mask_resized, returned,
    attention_float, attention_quantized,     \* script globals the calls assign
    perf_pc, perf_model, x_test, labels_test, outputs_keras, accuracy_keras

locals == <<num_tokens, grid_size, captured, weights, num_heads, num_layers,
            reshaped, v, n, mask, normalized, mask_resized, returned>>
globals == <<model_keras, model_quantized, image, attention_float, attention_quantized>>
attn_vars == <<globals, call, pc, error, locals>>
perf_vars == <<perf_pc, perf_model, x_test, labels_test, outputs_keras, accuracy_keras>>
vars == <<attn_vars, perf_vars>>

\* The model the running call was handed.
model == IF call = 1 THEN model_keras ELSE model_quantized

FreshLocals ==
    /\ num_tokens = NoInt /\ grid_size = NoInt /\ captured = None /\ weights = None
    /\ num_heads = NoInt /\ num_layers = NoInt /\ reshaped = None /\ v = None
    /\ n = NoInt /\ mask = None /\ normalized = None /\ mask_resized = None
    /\ returned = None

PerfIdle ==
    /\ perf_pc = "idle" /\ perf_model = None /\ x_test = None /\ labels_test = None
    /\ outputs_keras = None /\ accuracy_keras = None

AttnIdle ==
    /\ model_keras = None /\ model_quantized = None /\ image = None
    /\ call = 0 /\ pc = "idle" /\ error = "none"
    /\ attention_float = None /\ attention_quantized = None
    /\ FreshLocals

Init ==
    /\ model_keras \in Models
    /\ model_quantized = ModelQuantized(model_keras)
    /\ image \in Images
    /\ call = 1 /\ pc = "grid" /\ error = "none"
    /\ attention_float = None /\ attention_quantized = None
    /\ FreshLocals
    /\ PerfIdle

(* ---------------- actions of build_attention_map ---------------- *)
\* lines 260-264
GridSize ==
    /\ pc = "grid"
    /\ num_tokens' = model.class_tokens
    /\ grid_size' = GridSizeOf(model.tokens, model.class_tokens)
    /\ pc' = "predict"
    /\ UNCHANGED <<globals, call, error, captured, weights, num_heads, num_layers,
                   reshaped, v, n, mask, normalized, mask_resized, returned, perf_vars>>

\* lines 267-272
Predict ==
    /\ pc = "predict"
    /\ captured' = AttentionOutputs(model)
    /\ weights' = AttentionOutputs(model)
    /\ pc' = "reshape"
    /\ UNCHANGED <<globals, call, error, num_tokens, grid_size, num_heads, num_layers,
                   reshaped, v, n, mask, normalized, mask_resized, returned, perf_vars>>

\* lines 275-277
ReshapeWeights ==
    /\ pc = "reshape"
    /\ num_heads' = StackShape(weights)[3]
    /\ num_layers' = StackShape(weights)[1]
    /\ LET side == grid_size * grid_size + 1
       IN IF ReshapeFails(StackFlat(weights), num_layers', num_heads', side)
          THEN /\ pc' = "error" /\ error' = "reshape" /\ reshaped' = reshaped
          ELSE /\ pc' = "mean" /\ error' = error
               /\ reshaped' = Reshape(StackFlat(weights), num_layers', num_heads', side)
    /\ UNCHANGED <<globals, call, num_tokens, grid_size, captured, weights,
                   v, n, mask, normalized, mask_resized, returned, perf_vars>>

\* line 280
AverageHeads ==
    /\ pc = "mean"
    /\ reshaped' = MeanHeads(reshaped)
    /\ pc' = "residual"
    /\ UNCHANGED <<globals, call, error, num_tokens, grid_size, captured, weights, num_heads,
                   num_layers, v, n, mask, normalized, mask_resized, returned, perf_vars>>

\* line 284
AddIdentity ==
    /\ pc = "residual"
    /\ reshaped' = AddResidual(reshaped)
    /\ pc' = "renormalize"
    /\ UNCHANGED <<globals, call, error, num_tokens, grid_size, captured, weights, num_heads,
                   num_layers, v, n, mask, normalized, mask_resized, returned, perf_vars>>

\* line 285
RenormalizeWeights ==
    /\ pc = "renormalize"
    /\ reshaped' = Renormalize(reshaped)
    /\ pc' = "rollout_init"
    /\ UNCHANGED <<globals, call, error, num_tokens, grid_size, captured, weights, num_heads,
                   num_layers, v, n, mask, normalized, mask_resized, returned, perf_vars>>

\* line 288, and the first value of the loop variable of line 289
RolloutInit ==
    /\ pc = "rollout_init"
    /\ v' = reshaped[Len(reshaped)]
    /\ n' = 1
    /\ pc' = "rollout"
    /\ UNCHANGED <<globals, call, error, num_tokens, grid_size, captured, weights, num_heads,
                   num_layers, reshaped, mask, normalized, mask_resized, returned, perf_vars>>

\* lines 289-290, one iteration
RolloutStep ==
    /\ pc = "rollout"
    /\ n < Len(reshaped)
    /\ v' = RolloutMultiply(v, reshaped[Len(reshaped) - n])
    /\ n' = n + 1
    /\ UNCHANGED <<globals, call, pc, error, num_tokens, grid_size, captured, weights,
                   num_heads, num_layers, reshaped, mask, normalized, mask_resized,
                   returned, perf_vars>>

\* line 293, once the loop is exhausted
Extract ==
    /\ pc = "rollout"
    /\ n >= Len(reshaped)
    /\ IF ExtractFails(v, grid_size)
       THEN /\ pc' = "error" /\ error' = "reshape_mask" /\ mask' = mask
       ELSE /\ pc' = "normalize" /\ error' = error /\ mask' = ExtractMask(v, grid_size)
    /\ UNCHANGED <<globals, call, num_tokens, grid_size, captured, weights, num_heads,
                   num_layers, reshaped, v, n, normalized, mask_resized, returned, perf_vars>>

\* line 294: mask / mask.max()
Normalize ==
    /\ pc = "normalize"
    /\ IF NormalizeFails(mask)
       THEN /\ pc' = "error" /\ error' = "max" /\ normalized' = normalized
       ELSE /\ pc' = "resize" /\ error' = error /\ normalized' = MaskNormalize(mask)
    /\ UNCHANGED <<globals, call, num_tokens, grid_size, captured, weights, num_heads,
                   num_layers, reshaped, v, n, mask, mask_resized, returned, perf_vars>>

\* line 294: cv2.resize(..., (image.shape[1], image.shape[0]))[..., np.newaxis]
Resize ==
    /\ pc = "resize"
    /\ mask_resized' = CvResize(normalized, ResizeDsize(image))
    /\ pc' = "multiply"
    /\ UNCHANGED <<globals, call, error, num_tokens, grid_size, captured, weights, num_heads,
                   num_layers, reshaped, v, n, mask, normalized, returned, perf_vars>>

\* Variant of line 295: the product is written back into the image.
ReturnInPlace ==
    /\ pc = "multiply"
    /\ IF MultiplyFails(mask_resized, image)
       THEN /\ pc' = "error" /\ error' = "broadcast" /\ returned' = returned
            /\ image' = image
       ELSE /\ pc' = "returned" /\ error' = error
            /\ \E nan \in NaNCasts : returned' = AsUint8(Multiply(mask_resized, image), nan)
            /\ image' = returned'
    /\ UNCHANGED <<model_keras, model_quantized, attention_float, attention_quantized,
                   call, num_tokens, grid_size, captured, weights, num_heads,
                   num_layers, reshaped, v, n, mask, normalized, mask_resized, perf_vars>>

\* line 295
Return ==
    /\ pc = "multiply"
    /\ IF MultiplyFails(mask_resized, image)
       THEN /\ pc' = "error" /\ error' = "broadcast" /\ returned' = returned
       ELSE /\ pc' = "returned" /\ error' = error
            /\ \E nan \in NaNCasts : returned' = AsUint8(Multiply(mask_resized, image), nan)
    /\ UNCHANGED <<globals, call, num_tokens, grid_size, captured, weights, num_heads,
                   num_layers, reshaped, v, n, mask, normalized, mask_resized, perf_vars>>

ClearLocals ==
    /\ num_tokens' = NoInt /\ grid_size' = NoInt /\ captured' = None /\ weights' = None
    /\ num_heads' = NoInt /\ num_layers' = NoInt /\ reshaped' = None /\ v' = None
    /\ n' = NoInt /\ mask' = None /\ normalized' = None /\ mask_resized' = None
    /\ returned' = None

\* line 302: attention_float = build_attention_map(model_keras, image); line 303 starts
AssignFloat ==
    /\ pc = "returned" /\ call = 1
    /\ attention_float' = returned
    /\ call' = 2 /\ pc' = "grid"
    /\ ClearLocals
    /\ UNCHANGED <<model_keras, model_quantized, image, attention_quantized, error, perf_vars>>

\* line 303: attention_quantized = build_attention_map(model_quantized, image)
AssignQuantized ==
    /\ pc = "returned" /\ call = 2
    /\ attention_quantized' = returned
    /\ pc' = "finished"
    /\ ClearLocals
    /\ UNCHANGED <<model_keras, model_quantized, image, attention_float, call, error, perf_vars>>

Next ==
    \/ GridSize \/ Predict \/ ReshapeWeights \/ AverageHeads \/ AddIdentity
    \/ RenormalizeWeights \/ RolloutInit \/ RolloutStep \/ Extract \/ Normalize
    \/ Resize \/ Return \/ AssignFloat \/ AssignQuantized

Spec == Init /\ [][Next]_vars

(* ---------------- actions of check_model_performance ---------------- *)
InitPerf ==
    /\ AttnIdle
    /\ perf_pc = "predict"
    /\ perf_model \in Classifiers
    /\ \E k \in 1..MaxTest :
          /\ x_test = [i \in 1..k |-> i % 2]
          /\ labels_test \in [1..k -> Classes]
    /\ outputs_keras = None /\ accuracy_keras = None

\* line 190
PerfPredict ==
    /\ perf_pc = "predict"
    /\ outputs_keras' = PredictScores(perf_model, x_test)
    /\ perf_pc' = "argmax"
    /\ UNCHANGED <<attn_vars, perf_model, x_test, labels_test, accuracy_keras>>

\* line 191
PerfArgMax ==
    /\ perf_pc = "argmax"
    /\ outputs_keras' = [i \in 1..Len(outputs_keras) |-> ArgMax(outputs_keras[i])]
    /\ perf_pc' = "accuracy"
    /\ UNCHANGED <<attn_vars, perf_model, x_test, labels_test, accuracy_keras>>

\* lines 192-193
PerfAccuracy ==
    /\ perf_pc = "accuracy"
    /\ accuracy_keras' = AccuracyOf(outputs_keras, labels_test)
    /\ perf_pc' = "printed"
    /\ UNCHANGED <<attn_vars, perf_model, x_test, labels_test, outputs_keras>>

NextPerf == PerfPredict \/ PerfArgMax \/ PerfAccuracy

SpecPerf == InitPerf /\ [][NextPerf]_vars

(* ---------------- properties ---------------- *)
IsPerfectSquare(x) == \E r \in 0..x : r * r = x
Patches == model.tokens - model.class_tokens

\* The grid-size statement of the running call has been executed.
GridComputed == pc \notin {"idle", "grid", "finished"}

\* The renormalization of line 285 has been executed in the running call.
Renormalized ==
    \/ pc \in {"rollout_init", "rollout", "normalize", "resize", "multiply", "returned"}
    \/ pc = "error" /\ error \in {"reshape_mask", "max", "broadcast"}

Entries(m) == {m[r][c] : r \in 1..Rows(m), c \in 1..Cols(m)}
IsMaxOf(x, m) == x \in Entries(m) /\ \A y \in Entries(m) : RLe(y, x)
PositiveMax(m) == m # None /\ \E x \in Entries(m) : IsMaxOf(x, m) /\ RLt(R(0), x)
ZeroMax(m) == m # None /\ Entries(m) # {} /\ IsMaxOf(R(0), m)
HasImageShape(arr) ==
    /\ Len(arr) = Height(image)
    /\ \A y \in 1..Len(arr) : Len(arr[y]) = Width(image)

\* C1, as stated: when tokens - class tokens is a perfect square the grid size is
\* its exact root; otherwise the call fails at the grid-size step (no grid size,
\* no forward pass, nothing later runs).
C1_ShapeErrorAtGridStep ==
    GridComputed =>
        IF IsPerfectSquare(Patches)
        THEN grid_size * grid_size = Patches
        ELSE pc = "error" /\ grid_size = NoInt /\ captured = None

\* C1, amended: the grid size is always the integer part of the square root
\* (exact on perfect squares); on a non-square count the grid-size step raises
\* nothing, the forward pass runs, and the call fails at the reshape of line 277.
C1_TruncatedGridThenReshapeError ==
    GridComputed =>
        /\ grid_size >= 0
        /\ grid_size * grid_size <= Patches
        /\ Patches < (grid_size + 1) * (grid_size + 1)
        /\ ~IsPerfectSquare(Patches) =>
              /\ pc \in {"predict", "reshape", "error"}
              /\ pc = "error" => (error = "reshape" /\ captured # None)

C1_Witness ==
    /\ pc = "error" /\ error = "reshape"
    /\ model.class_tokens = 1 /\ Patches = 3 /\ grid_size = 1

\* C2, as stated: after identity-add and renormalization every row of every
\* layer's relevance matrix sums to 1.
C2_RowStochastic ==
    Renormalized =>
        \A l \in 1..Len(reshaped) : \A i \in 1..Rows(reshaped[l]) :
            RSumSeq(reshaped[l][i]) = R(1)

RECURSIVE AscendingProduct(_, _, _)
AscendingProduct(r, lo, hi) ==
    IF lo = hi THEN r[lo] ELSE MatMul(r[lo], AscendingProduct(r, lo + 1, hi))

RECURSIVE DescendingProduct(_, _, _)
DescendingProduct(r, hi, lo) ==
    IF hi = lo THEN r[hi] ELSE MatMul(r[hi], DescendingProduct(r, hi - 1, lo))

\* C3, as stated: each visited layer left-multiplies the accumulator, so after
\* visiting layers L-1 .. k the accumulator is A_k x ... x A_L.
C3_LeftMultiply ==
    v # None =>
        /\ n \in 1..Len(reshaped)
        /\ v = AscendingProduct(reshaped, Len(reshaped) - n + 1, Len(reshaped))
        /\ pc # "rollout" => n = Len(reshaped)

\* C3, amended: each visited layer right-multiplies the accumulator, so after
\* visiting layers L-1 .. k the accumulator is A_L x ... x A_k, each layer once.
C3_RightMultiply ==
    v # None =>
        /\ n \in 1..Len(reshaped)
        /\ v = DescendingProduct(reshaped, Len(reshaped), Len(reshaped) - n + 1)
        /\ pc # "rollout" => n = Len(reshaped)

C3_Witness ==
    /\ pc = "normalize" /\ Len(reshaped) = 2
    /\ MatMul(reshaped[1], reshaped[2]) # MatMul(reshaped[2], reshaped[1])
    /\ v = MatMul(reshaped[2], reshaped[1])

\* C4, as stated: for any number c >= 1 of class tokens with tokens = g*g + c the
\* weights are taken as tokens x tokens matrices and the mask is row 0 of the
\* composite without its first c columns, g*g values laid out g x g.
C4_AllClassTokensExcluded ==
    (IsPerfectSquare(Patches) /\ pc \notin {"idle", "grid", "predict", "reshape", "finished"}) =>
        /\ error # "reshape"
        /\ \A l \in 1..Len(reshaped) : Rows(reshaped[l]) = model.tokens
        /\ mask # None =>
              /\ grid_size * grid_size = Patches
              /\ mask = [r \in 1..grid_size |-> [c \in 1..grid_size |->
                            v[1][model.class_tokens + (r - 1) * grid_size + c]]]

\* C5: when the extracted mask has a positive maximum m, the normalized mask has
\* maximum exactly 1, each entry is the original entry over m, order is kept.
C5_MaskNormalization ==
    (normalized # None /\ PositiveMax(mask)) =>
        LET m == CHOOSE x \in Entries(mask) : IsMaxOf(x, mask)
            cells == {<<r, c>> : r \in 1..Rows(mask), c \in 1..Cols(mask)}
        IN /\ IsMaxOf(R(1), normalized)
           /\ \A p \in cells : RMul(normalized[p[1]][p[2]], m) = mask[p[1]][p[2]]
           /\ \A p, q \in cells :
                 RLe(mask[p[1]][p[2]], mask[q[1]][q[2]])
                    <=> RLe(normalized[p[1]][p[2]], normalized[q[1]][q[2]])

C5_Witness ==
    /\ pc = "resize" /\ PositiveMax(mask) /\ ~IsMaxOf(R(1), mask)
    /\ \E x, y \in Entries(mask) : RLt(R(0), x) /\ RLt(x, y)

\* C6, as stated: the returned array has the image's shape and every value is
\* the product of the resized mask and the image at that pixel and channel.
C6_ExactProduct ==
    (pc = "returned" /\ PositiveMax(mask)) =>
        /\ HasImageShape(returned)
        /\ \A y \in 1..Height(image) : \A x \in 1..Width(image) :
              \A ch \in 1..NUM_CHANNELS :
                 R(returned[y][x][ch]) = RMul(mask_resized[y][x], R(image[y][x][ch]))

\* C6, amended: every value is that product truncated to an integer by the
\* uint8 cast (the largest integer not above it, within 0..255).
C6_TruncatedProduct ==
    (pc = "returned" /\ PositiveMax(mask)) =>
        /\ HasImageShape(returned)
        /\ \A y \in 1..Height(image) : \A x \in 1..Width(image) :
              /\ Len(returned[y][x]) = NUM_CHANNELS
              /\ \A ch \in 1..NUM_CHANNELS :
                    LET p == RMul(mask_resized[y][x], R(image[y][x][ch]))
                        q == returned[y][x][ch]
                    IN /\ q \in 0..255
                       /\ q * p[2] <= p[1]
                       /\ p[1] < (q + 1) * p[2]

C6_Witness ==
    /\ pc = "returned" /\ PositiveMax(mask)
    /\ num_layers = 2 /\ num_heads = 1 /\ model.tokens = 5 /\ grid_size = 2
    /\ Height(image) = 4 /\ Width(image) = 4
    /\ \E y \in 1..4 : \E x \in 1..4 :
          RMul(mask_resized[y][x], R(image[y][x][1]))[2] # 1

\* C7: the resized mask and the returned array have exactly image-height rows
\* of image-width entries, whatever the grid size; the product never fails.
C7_OutputDims ==
    /\ mask_resized # None => HasImageShape(mask_resized)
    /\ returned # None => HasImageShape(returned)
    /\ error # "broadcast"

C7_Witness ==
    /\ pc = "returned" /\ grid_size = 2
    /\ Height(image) # Width(image)
    /\ Height(image) # grid_size /\ Width(image) # grid_size

C9_NoInputMutation ==
    [][/\ image' = image
       /\ model_keras' = model_keras /\ model_quantized' = model_quantized
       /\ (captured # None /\ pc' \notin {"grid", "finished"}) => captured' = captured]_vars

C9_Witness ==
    /\ call = 2 /\ pc = "returned"
    /\ attention_float # None /\ attention_float # image /\ returned # image

\* C10, as stated: the accuracy is the number of images whose arg-max class
\* equals the label over the number of images passed, hence within 0..1.
C10_AccuracyOverPassed ==
    perf_pc = "printed" =>
        LET hits == Cardinality({i \in 1..Len(x_test) : perf_model[x_test[i]] = labels_test[i]})
        IN /\ accuracy_keras = Rat(hits, Len(x_test))
           /\ RLe(R(0), accuracy_keras) /\ RLe(accuracy_keras, R(1))

====
